---- MODULE Spec2Model ----
(***************************************************************************)
(* Model of the AI API service: provider selection at import time of the   *)
(* router (app/routers/ai.py), the Groq and Hugging Face provider clients  *)
(* (app/services/*.py) and the request handlers of the router.             *)
(*                                                                         *)
(* Python strings are TLA+ strings; Len, \o and SubSeq act on them as on   *)
(* sequences of characters.  Python's None is the string None below.       *)
(***************************************************************************)
EXTENDS Integers, Sequences, FiniteSets, TLC

None == "<None>"
NoneObj == [kind |-> "None"]

\* Python truthiness of an os.getenv() result
Truthy(v) == v # None /\ v # ""

(***************************************************************************)
(* String primitives                                                       *)
(***************************************************************************)
UpperChars == "ABCDEFGHIJKLMNOPQRSTUVWXYZ"
LowerChars == "abcdefghijklmnopqrstuvwxyz"

\* the one-character strings of an alphabet
CharsOf(alphabet) == {SubSeq(alphabet, i, i) : i \in 1..Len(alphabet)}

\* maps each character of alphabet from to the character of alphabet to
\* at the same position
CharMap(from, to) ==
    [c \in CharsOf(from) |->
        LET i == CHOOSE j \in 1..Len(from) : SubSeq(from, j, j) = c
        IN  SubSeq(to, i, i)]

ToLower == CharMap(UpperChars, LowerChars)
ToUpper == CharMap(LowerChars, UpperChars)

LowerChar(c) == IF c \in DOMAIN ToLower THEN ToLower[c] ELSE c

UpperChar(c) == IF c \in DOMAIN ToUpper THEN ToUpper[c] ELSE c

RECURSIVE lower(_)
\* str.lower()
lower(s) ==
    IF Len(s) = 0 THEN ""
    ELSE LowerChar(SubSeq(s, 1, 1)) \o lower(SubSeq(s, 2, Len(s)))

\* str.capitalize(): first character upper-cased, the rest lower-cased
capitalize(s) ==
    IF Len(s) = 0 THEN ""
    ELSE UpperChar(SubSeq(s, 1, 1)) \o lower(SubSeq(s, 2, Len(s)))

\* sub in s
contains(s, sub) ==
    \E i \in 1..(Len(s) - Len(sub) + 1) : SubSeq(s, i, i + Len(sub) - 1) = sub

\* s.startswith(prefix)
startswith(s, prefix) ==
    Len(s) >= Len(prefix) /\ SubSeq(s, 1, Len(prefix)) = prefix

Min(a, b) == IF a < b THEN a ELSE b
Max(a, b) == IF a > b THEN a ELSE b

\* s[:n]
slice_to(s, n) == SubSeq(s, 1, Min(n, Len(s)))

RECURSIVE repeat(_, _)
\* s * n
repeat(s, n) == IF n <= 0 THEN "" ELSE s \o repeat(s, n - 1)

\* any(f(x) for x in seq) for a sequence of keywords
any_in(words, text) == \E k \in 1..Len(words) : contains(text, words[k])

(***************************************************************************)
(* More str helpers                                                        *)
(***************************************************************************)
Digits == "0123456789"

RECURSIVE str_int(_)
\* str(n) for a natural number n
str_int(n) ==
    IF n < 10 THEN SubSeq(Digits, n + 1, n + 1)
    ELSE str_int(n \div 10) \o SubSeq(Digits, (n % 10) + 1, (n % 10) + 1)

IsSpace(c) == c = " "

RECURSIVE lstrip(_)
lstrip(s) ==
    IF Len(s) > 0 /\ IsSpace(SubSeq(s, 1, 1)) THEN lstrip(SubSeq(s, 2, Len(s))) ELSE s

RECURSIVE rstrip(_)
rstrip(s) ==
    IF Len(s) > 0 /\ IsSpace(SubSeq(s, Len(s), Len(s)))
    THEN rstrip(SubSeq(s, 1, Len(s) - 1)) ELSE s

\* str.strip()
strip(s) == rstrip(lstrip(s))

(***************************************************************************)
(* app/services/groq_service.py                                            *)
(***************************************************************************)
DefaultGroqModel == "llama-3.1-8b-instant"

\* os.getenv(name, default)
getenv_default(value, default) == IF value = None THEN default ELSE value

\* GroqService.__init__: the instance, or the exception it raises
GroqService_init(api_key, groq_model, available, ctor_ok) ==
    IF ~Truthy(api_key)
    THEN [raised |-> "ValueError", obj |-> NoneObj]
    ELSE IF ~available
    THEN [raised |-> "ImportError", obj |-> NoneObj]
    ELSE IF ~ctor_ok
    THEN [raised |-> "Exception", obj |-> NoneObj]
    ELSE [raised |-> None,
          obj |-> [kind |-> "GroqService", api_key |-> api_key,
                   model |-> getenv_default(groq_model, DefaultGroqModel)]]

\* variant: the authentication test comes before the rate-limit test
groq_error_text_auth_first(msg) ==
    IF contains(lower(msg), "authentication")
    THEN "Error: Invalid API key. Please check your GROQ_API_KEY."
    ELSE IF contains(lower(msg), "rate limit")
    THEN "Error: Rate limit exceeded. Please try again in a moment."
    ELSE IF contains(lower(msg), "connection")
    THEN "Error: Connection failed. Please check your internet connection."
    ELSE "Error: " \o msg

\* the except branch of GroqService.generate_text; msg is str(e)
groq_error_text(msg) ==
    IF contains(lower(msg), "rate limit")
    THEN "Error: Rate limit exceeded. Please try again in a moment."
    ELSE IF contains(lower(msg), "authentication")
    THEN "Error: Invalid API key. Please check your GROQ_API_KEY."
    ELSE IF contains(lower(msg), "connection")
    THEN "Error: Connection failed. Please check your internet connection."
    ELSE "Error: " \o msg

NoneTypeMsg == "'NoneType' object is not subscriptable"

\* GroqService.generate_text given what client.chat.completions.create did:
\* [kind |-> "ok", content |-> text or None] or [kind |-> "raise", msg |-> str(e)]
GroqService_generate_text(outcome) ==
    IF outcome.kind = "raise" THEN groq_error_text(outcome.msg)
    ELSE IF outcome.content = None THEN groq_error_text(NoneTypeMsg)
    ELSE outcome.content

GroqUnavailableText ==
    "Error: Groq service is not available. Please check installation and API key."

(***************************************************************************)
(* app/services/huggingface_service.py                                     *)
(***************************************************************************)
DefaultHFModel == "microsoft/DialoGPT-medium"

ModelCatalog ==
    [conversation    |-> <<"microsoft/DialoGPT-medium", "microsoft/DialoGPT-large">>,
     text_generation |-> <<"gpt2", "distilgpt2">>,
     summarization   |-> <<"facebook/bart-large-cnn", "google/pegasus-xsum">>,
     text_to_text    |-> <<"google/t5-v1_1-base", "google/flan-t5-base">>]

\* HuggingFaceService.__init__ (a missing key only logs a warning)
HuggingFaceService_init(api_key, hf_model) ==
    [kind    |-> "HuggingFaceService",
     api_key |-> api_key,
     model   |-> getenv_default(hf_model, DefaultHFModel),
     models  |-> ModelCatalog]

ConversationWords  == <<"hello", "hi", "how are you", "chat", "talk">>
SummarizationWords == <<"summarize", "summary", "brief", "overview">>
TextToTextWords    == <<"translate", "convert", "transform">>

\* variant: the summarization keywords are tested first
_determine_model_type_summary_first(prompt) ==
    LET prompt_lower == lower(prompt)
    IN  IF any_in(SummarizationWords, prompt_lower) THEN "summarization"
        ELSE IF any_in(ConversationWords, prompt_lower) THEN "conversation"
        ELSE IF any_in(TextToTextWords, prompt_lower) THEN "text_to_text"
        ELSE "text_generation"

_determine_model_type(prompt) ==
    LET prompt_lower == lower(prompt)
    IN  IF any_in(ConversationWords, prompt_lower) THEN "conversation"
        ELSE IF any_in(SummarizationWords, prompt_lower) THEN "summarization"
        ELSE IF any_in(TextToTextWords, prompt_lower) THEN "text_to_text"
        ELSE "text_generation"

ErrorIndicators == <<"error", "404", "503", "not found", "unavailable", "loading">>

_is_error(result) == any_in(ErrorIndicators, lower(result))

\* the "parameters" of the payload of _call_api; temperature in tenths
payload_parameters(model_name, max_tokens, temperature) ==
    IF contains(lower(model_name), "gpt")
    THEN [max_new_tokens |-> max_tokens]
    ELSE IF contains(lower(model_name), "bart") \/ contains(lower(model_name), "pegasus")
    THEN [max_length |-> max_tokens, min_length |-> 10]
    ELSE [max_length |-> max_tokens, temperature |-> Max(1, Min(temperature, 10))]

ResponseKeys == <<"generated_text", "summary_text", "translation_text">>

\* _parse_response.  The JSON body is [shape |-> "list" | "dict" | "other",
\* fields |-> a function from keys to texts, repr |-> str() of the item].
_parse_response(body) ==
    IF body.shape \in {"list", "dict"}
       /\ \E k \in 1..Len(ResponseKeys) : ResponseKeys[k] \in DOMAIN body.fields
    THEN LET k == CHOOSE i \in 1..Len(ResponseKeys) :
                     /\ ResponseKeys[i] \in DOMAIN body.fields
                     /\ \A j \in 1..(i - 1) : ResponseKeys[j] \notin DOMAIN body.fields
         IN  strip(body.fields[ResponseKeys[k]])
    ELSE strip(body.repr)

\* _call_api given what requests.post did:
\* [kind |-> "http", status |-> code, body |-> JSON body] or
\* [kind |-> "raise", msg |-> str(e)]
_call_api(http) ==
    IF http.kind = "raise" THEN "Error: " \o http.msg
    ELSE IF http.status = 200 THEN _parse_response(http.body)
    ELSE "Error " \o str_int(http.status)

AllUnavailableText ==
    "Sorry, all models are currently unavailable. Please try again later."

\* the text generate_text returns for a candidate whose result is not an error
hf_success_text(model_type, model, default_model, result) ==
    IF model # default_model
    THEN "[" \o capitalize(model_type) \o " model: " \o model \o "] " \o result
    ELSE result

\* variant: the default model is tried first
models_to_try_default_first(service, model_type) ==
    <<service.model>> \o service.models[model_type]

\* the candidate list of generate_text
models_to_try_of(service, model_type) ==
    service.models[model_type] \o <<service.model>>

(***************************************************************************)
(* app/routers/ai.py: generate_text_mock                                   *)
(***************************************************************************)
MockPromptChars == 50

\* variant: the whole prompt is echoed
generate_text_mock_untruncated(prompt, max_tokens, temperature) ==
    "[Mock Response] I received your prompt: '" \o prompt
        \o "...'. Please configure an AI provider."

generate_text_mock(prompt, max_tokens, temperature) ==
    "[Mock Response] I received your prompt: '" \o slice_to(prompt, MockPromptChars)
        \o "...'. Please configure an AI provider."

(***************************************************************************)
(* Inputs                                                                  *)
(***************************************************************************)
\* length of the long prompt (longer than the mock's echo window)
LongLen == 60
\* max_tokens values a request may carry are 1..MaxTokensBound
MaxTokensBound == 2

LongPrompt == "Tell me " \o repeat("z", LongLen)

\* prompts of /ai/generate and messages of /ai/chat
Prompts ==
    <<"hi", "Write a poem", "Say HELLO then summarize it",
      "Convert a Summary", LongPrompt>>

ChatMessages == <<"What is 2+2?", "let us talk">>

Texts == <<"Bonjour", "a brief chat">>

Instructions == <<"sorts a list">>

\* temperatures in tenths: 0.7 and 1.5
Temperatures == {7, 15}

Environ(groq_key, groq_model, hf_key, hf_model) ==
    [GROQ_API_KEY |-> groq_key, GROQ_MODEL |-> groq_model,
     HUGGINGFACE_API_KEY |-> hf_key, HUGGINGFACE_MODEL |-> hf_model]

\* os.environ after load_dotenv(): unset variables are None
Environments ==
    {Environ(None, None, None, None),
     Environ("gsk_key", None, None, None),
     Environ("gsk_key", "llama3-70b-8192", "hf_key", "bigscience/bloom"),
     Environ("", None, "hf_key", "bigscience/bloom"),
     Environ(None, "llama3-70b-8192", "hf_key", None),
     Environ("", None, None, "bigscience/bloom")}

\* what the import of the groq client library does (groq_service.py:12-20)
GroqLibOutcomes == {"ok", "ImportError", "AttributeError", "RuntimeError"}

\* what the import of app.services.huggingface_service does (ai.py:25)
HFImportOutcomes == {"ok", "ImportError", "RuntimeError"}

\* what client.chat.completions.create does
GroqOutcomes ==
    <<[kind |-> "ok", content |-> "Four."],
      [kind |-> "ok", content |-> "Error: is what a compiler reports"],
      [kind |-> "ok", content |-> None],
      [kind |-> "raise", msg |-> "Rate Limit reached; authentication ok"],
      [kind |-> "raise", msg |-> "AUTHENTICATION failed on connection"],
      [kind |-> "raise", msg |-> "Connection refused"],
      [kind |-> "raise", msg |-> "boom"]>>

\* what requests.post does
HttpOutcomes ==
    <<[kind |-> "http", status |-> 200,
       body |-> [shape |-> "list", fields |-> [generated_text |-> "  Paris.  "], repr |-> ""]],
      [kind |-> "http", status |-> 200,
       body |-> [shape |-> "dict", fields |-> [summary_text |-> "Model is Loading"], repr |-> ""]],
      [kind |-> "http", status |-> 429, body |-> [shape |-> "other", fields |-> <<>>, repr |-> ""]],
      [kind |-> "raise", msg |-> "Read timed out"]>>

(***************************************************************************)
(* State                                                                   *)
(***************************************************************************)
VARIABLES
    env,                  \* os.environ after load_dotenv()
    pc,                   \* position of the import of app.routers.ai
    groq_lib,             \* outcome of "from groq import Groq", "pending" before
    groq_ctor,            \* outcome of Groq(api_key=...): "not_run", "ok", "failed"
    hf_import,            \* outcome of importing huggingface_service, "not_run" before
    GROQ_AVAILABLE,       \* groq_service.py global
    groq_service,         \* groq_service.py global
    huggingface_service,  \* huggingface_service.py global
    AI_PROVIDER,          \* ai.py global
    generate_text_ai,     \* ai.py global: name of the provider function, or None
    uncaught,             \* exception that escaped the import of the router, or None
    req,                  \* the request being served
    rpc,                  \* position of the handler serving req
    loop,                 \* locals of HuggingFaceService.generate_text
    events,               \* upstream API calls and sleeps made for req, in order
    text,                 \* what generate_text_ai returned for req
    response              \* the handler's response

vars == <<env, pc, groq_lib, groq_ctor, hf_import, GROQ_AVAILABLE, groq_service,
          huggingface_service, AI_PROVIDER, generate_text_ai, uncaught,
          req, rpc, loop, events, text, response>>

startup_vars == <<pc, groq_lib, groq_ctor, hf_import, GROQ_AVAILABLE, groq_service,
                  huggingface_service, AI_PROVIDER, generate_text_ai, uncaught>>

request_vars == <<req, rpc, loop, events, text, response>>

NoReq == [endpoint |-> "none"]
NoLoop == [model_type |-> None, models_to_try |-> <<>>, idx |-> 0]
NoResponse == [kind |-> "none"]

Init ==
    /\ env \in Environments
    /\ pc = "import_groq_lib"
    /\ groq_lib = "pending"
    /\ groq_ctor = "not_run"
    /\ hf_import = "not_run"
    /\ GROQ_AVAILABLE = FALSE
    /\ groq_service = NoneObj
    /\ huggingface_service = NoneObj
    /\ AI_PROVIDER = "none"
    /\ generate_text_ai = None
    /\ uncaught = None
    /\ req = NoReq
    /\ rpc = "idle"
    /\ loop = NoLoop
    /\ events = <<>>
    /\ text = None
    /\ response = NoResponse

(***************************************************************************)
(* Startup: import of app.routers.ai                                       *)
(***************************************************************************)
\* "except c" catches exc: every exception class here derives from Exception
IsSubclass(exc, c) == exc = c \/ c = "Exception"
Catches(clauses, exc) == \E c \in clauses : IsSubclass(exc, c)

\* except clauses of groq_service.py:15-20, groq_service.py:98,
\* ai.py:17-20 and ai.py:29-32
GroqLibClauses == {"ImportError", "AttributeError"}
ServiceCreateClauses == {"Exception"}
RouterGroqClauses == {"ImportError", "Exception"}
RouterHFClauses == {"ImportError", "Exception"}

\* groq_service.py:12-20, reached from ai.py:12.  An exception that the
\* module does not catch leaves it and reaches the try block of ai.py:11.
GroqModuleImport ==
    /\ pc = "import_groq_lib"
    /\ \E outcome \in GroqLibOutcomes :
         /\ groq_lib' = outcome
         /\ GROQ_AVAILABLE' = (outcome = "ok")
         /\ IF outcome = "ok" \/ Catches(GroqLibClauses, outcome)
            THEN pc' = "create_groq_service" /\ uncaught' = None
            ELSE IF Catches(RouterGroqClauses, outcome)
            THEN pc' = "fallback_hf" /\ uncaught' = None
            ELSE pc' = "crashed" /\ uncaught' = outcome
    /\ UNCHANGED <<env, groq_ctor, hf_import, groq_service, huggingface_service,
                   AI_PROVIDER, generate_text_ai, request_vars>>

\* groq_service.py:93-100, then back to ai.py:13
GroqServiceCreate ==
    /\ pc = "create_groq_service"
    /\ IF GROQ_AVAILABLE
       THEN \E ctor_ok \in BOOLEAN :
              \* Groq(api_key=...) runs only when the key is set
              /\ (~Truthy(env.GROQ_API_KEY) => ctor_ok)
              /\ groq_ctor' = IF ~Truthy(env.GROQ_API_KEY) THEN "not_run"
                              ELSE IF ctor_ok THEN "ok" ELSE "failed"
              /\ LET init == GroqService_init(env.GROQ_API_KEY, env.GROQ_MODEL,
                                              GROQ_AVAILABLE, ctor_ok)
                 IN  IF init.raised = None
                     THEN groq_service' = init.obj /\ pc' = "select_groq"
                                                   /\ uncaught' = None
                     ELSE IF Catches(ServiceCreateClauses, init.raised)
                     THEN groq_service' = NoneObj /\ pc' = "select_groq"
                                                  /\ uncaught' = None
                     ELSE IF Catches(RouterGroqClauses, init.raised)
                     THEN groq_service' = NoneObj /\ pc' = "fallback_hf"
                                                  /\ uncaught' = None
                     ELSE groq_service' = NoneObj /\ pc' = "crashed"
                                                  /\ uncaught' = init.raised
       ELSE /\ groq_service' = NoneObj
            /\ groq_ctor' = "not_run"
            /\ pc' = "select_groq"
            /\ uncaught' = None
    /\ UNCHANGED <<env, groq_lib, hf_import, GROQ_AVAILABLE, huggingface_service,
                   AI_PROVIDER, generate_text_ai, request_vars>>

\* the condition of ai.py:13
groq_usable(service, key) == service # NoneObj /\ Truthy(key)

\* ai.py:13-16
RouterSelectGroq ==
    /\ pc = "select_groq"
    /\ IF groq_usable(groq_service, env.GROQ_API_KEY)
       THEN /\ generate_text_ai' = "generate_text_groq"
            /\ AI_PROVIDER' = "groq"
       ELSE UNCHANGED <<generate_text_ai, AI_PROVIDER>>
    /\ pc' = "fallback_hf"
    /\ UNCHANGED <<env, groq_lib, groq_ctor, hf_import, GROQ_AVAILABLE, groq_service,
                   huggingface_service, uncaught, request_vars>>

\* variant: the fallbacks run whatever was selected before
no_provider_unchecked(provider) == TRUE

\* the condition of ai.py:23 and ai.py:35
no_provider(provider) == provider = "none"

\* ai.py:22-32; the import runs huggingface_service.py:141-142
RouterFallbackHF ==
    /\ pc = "fallback_hf"
    /\ IF no_provider(AI_PROVIDER)
       THEN \E outcome \in HFImportOutcomes :
              /\ hf_import' = outcome
              /\ IF outcome = "ok"
                 THEN /\ huggingface_service' =
                           HuggingFaceService_init(env.HUGGINGFACE_API_KEY,
                                                   env.HUGGINGFACE_MODEL)
                      /\ generate_text_ai' = "generate_text_hf"
                      /\ AI_PROVIDER' = "huggingface"
                      /\ pc' = "fallback_mock" /\ uncaught' = None
                 ELSE /\ UNCHANGED <<huggingface_service, generate_text_ai, AI_PROVIDER>>
                      /\ IF Catches(RouterHFClauses, outcome)
                         THEN pc' = "fallback_mock" /\ uncaught' = None
                         ELSE pc' = "crashed" /\ uncaught' = outcome
       ELSE /\ pc' = "fallback_mock"
            /\ UNCHANGED <<hf_import, huggingface_service, generate_text_ai,
                           AI_PROVIDER, uncaught>>
    /\ UNCHANGED <<env, groq_lib, groq_ctor, GROQ_AVAILABLE, groq_service, request_vars>>

\* variant: the mock is installed but the provider name is left as it was
RouterFallbackMock_keeps_name ==
    /\ pc = "fallback_mock"
    /\ IF no_provider(AI_PROVIDER)
       THEN /\ generate_text_ai' = "generate_text_mock"
            /\ UNCHANGED AI_PROVIDER
       ELSE UNCHANGED <<generate_text_ai, AI_PROVIDER>>
    /\ pc' = "ready"
    /\ UNCHANGED <<env, groq_lib, groq_ctor, hf_import, GROQ_AVAILABLE, groq_service,
                   huggingface_service, uncaught, request_vars>>

\* ai.py:34-44
RouterFallbackMock ==
    /\ pc = "fallback_mock"
    /\ IF no_provider(AI_PROVIDER)
       THEN /\ generate_text_ai' = "generate_text_mock"
            /\ AI_PROVIDER' = "mock"
       ELSE UNCHANGED <<generate_text_ai, AI_PROVIDER>>
    /\ pc' = "ready"
    /\ UNCHANGED <<env, groq_lib, groq_ctor, hf_import, GROQ_AVAILABLE, groq_service,
                   huggingface_service, uncaught, request_vars>>

(***************************************************************************)
(* Requests: handlers of app/routers/ai.py                                 *)
(***************************************************************************)
Idle == pc = "ready" /\ rpc = "idle"

\* the response when generate_text_ai is None: /ai/generate raises
\* HTTPException(503) inside its own try (ai.py:62-63), which ai.py:88-92
\* turns into a 500; the other handlers call None and the framework answers 500
not_configured_response(endpoint) ==
    IF endpoint = "generate"
    THEN [kind |-> "http_error", status_code |-> 500,
          detail |-> "Error generating text: 503: AI service not configured"]
    ELSE [kind |-> "http_error", status_code |-> 500,
          detail |-> "Internal Server Error"]

\* entering a handler: the call of generate_text_ai comes next
Begin(r) ==
    /\ req' = r
    /\ loop' = NoLoop
    /\ events' = <<>>
    /\ text' = None
    /\ IF generate_text_ai = None
       THEN /\ rpc' = "idle"
            /\ response' = not_configured_response(r.endpoint)
       ELSE /\ rpc' = "call_provider"
            /\ response' = NoResponse

\* ai.py:58-69
StartGenerate ==
    /\ Idle
    /\ \E i \in 1..Len(Prompts), mt \in 1..MaxTokensBound, t \in Temperatures :
         Begin([endpoint |-> "generate", prompt |-> Prompts[i],
                max_tokens |-> mt, temperature |-> t,
                args |-> [prompt |-> Prompts[i]]])
    /\ UNCHANGED <<env, startup_vars>>

translate_prompt(source_language, target_language, txt) ==
    "Translate the following text from " \o source_language \o " to "
        \o target_language \o ": " \o txt

\* ai.py:117-126
StartTranslate ==
    /\ Idle
    /\ \E i \in 1..Len(Texts) :
         Begin([endpoint |-> "translate",
                prompt |-> translate_prompt("auto", "French", Texts[i]),
                max_tokens |-> 100, temperature |-> 3,
                args |-> [text |-> Texts[i], target_language |-> "French",
                          source_language |-> "auto"]])
    /\ UNCHANGED <<env, startup_vars>>

summarize_prompt(txt) == "Please summarize the following text concisely: " \o txt

\* ai.py:136-145
StartSummarize ==
    /\ Idle
    /\ \E i \in 1..Len(Texts), ml \in 1..MaxTokensBound :
         Begin([endpoint |-> "summarize", prompt |-> summarize_prompt(Texts[i]),
                max_tokens |-> ml, temperature |-> 2,
                args |-> [text |-> Texts[i]]])
    /\ UNCHANGED <<env, startup_vars>>

code_prompt(language, instruction) ==
    "Write " \o language \o " code that: " \o instruction
        \o ". Provide only the code with comments."

\* ai.py:154-163
StartGenerateCode ==
    /\ Idle
    /\ \E i \in 1..Len(Instructions), mt \in 1..MaxTokensBound :
         Begin([endpoint |-> "generate-code",
                prompt |-> code_prompt("python", Instructions[i]),
                max_tokens |-> mt, temperature |-> 1,
                args |-> [instruction |-> Instructions[i], language |-> "python"]])
    /\ UNCHANGED <<env, startup_vars>>

\* ai.py:172-179
StartChat ==
    /\ Idle
    /\ \E i \in 1..Len(ChatMessages), mt \in 1..MaxTokensBound :
         Begin([endpoint |-> "chat", prompt |-> ChatMessages[i],
                max_tokens |-> mt, temperature |-> 7,
                args |-> [message |-> ChatMessages[i]]])
    /\ UNCHANGED <<env, startup_vars>>

\* ai.py:94-102
GetProvider ==
    /\ Idle
    /\ req' = [endpoint |-> "provider"]
    /\ events' = <<>>
    /\ text' = None
    /\ loop' = NoLoop
    /\ response' = [kind |-> "provider",
                    provider |-> AI_PROVIDER,
                    status |-> IF AI_PROVIDER # "none" THEN "active" ELSE "inactive",
                    message |-> "Using " \o AI_PROVIDER \o " API",
                    configured |-> Truthy(env.GROQ_API_KEY)
                                      \/ Truthy(env.HUGGINGFACE_API_KEY)]
    /\ UNCHANGED <<env, startup_vars, rpc>>

\* generate_text_mock, ai.py:38-39
CallMock ==
    /\ pc = "ready" /\ rpc = "call_provider"
    /\ generate_text_ai = "generate_text_mock"
    /\ text' = generate_text_mock(req.prompt, req.max_tokens, req.temperature)
    /\ rpc' = "respond"
    /\ UNCHANGED <<env, startup_vars, req, loop, events, response>>

\* generate_text_groq, groq_service.py:102-105, and GroqService.generate_text
CallGroq ==
    /\ pc = "ready" /\ rpc = "call_provider"
    /\ generate_text_ai = "generate_text_groq"
    /\ IF groq_service = NoneObj
       THEN /\ text' = GroqUnavailableText
            /\ UNCHANGED events
       ELSE \E k \in 1..Len(GroqOutcomes) :
              /\ events' = Append(events,
                     [op |-> "groq_api", model |-> groq_service.model,
                      prompt |-> req.prompt, max_tokens |-> req.max_tokens,
                      temperature |-> req.temperature, outcome |-> GroqOutcomes[k]])
              /\ text' = GroqService_generate_text(GroqOutcomes[k])
    /\ rpc' = "respond"
    /\ UNCHANGED <<env, startup_vars, req, loop, response>>

\* generate_text_hf, huggingface_service.py:144-145, and the head of
\* HuggingFaceService.generate_text, huggingface_service.py:50-52
HFBegin ==
    /\ pc = "ready" /\ rpc = "call_provider"
    /\ generate_text_ai = "generate_text_hf"
    /\ LET model_type == _determine_model_type(req.prompt)
       IN  loop' = [model_type |-> model_type,
                    models_to_try |-> models_to_try_of(huggingface_service, model_type),
                    idx |-> 1]
    /\ rpc' = "hf_call"
    /\ UNCHANGED <<env, startup_vars, req, events, text, response>>

\* one iteration up to the sleep, huggingface_service.py:54-59
HFCall ==
    /\ pc = "ready" /\ rpc = "hf_call"
    /\ \E k \in 1..Len(HttpOutcomes) :
         LET model == loop.models_to_try[loop.idx]
             result == _call_api(HttpOutcomes[k])
         IN  /\ events' = Append(events,
                    [op |-> "hf_api", model |-> model,
                     parameters |-> payload_parameters(model, req.max_tokens,
                                                       req.temperature),
                     result |-> result])
             /\ IF ~_is_error(result)
                THEN /\ text' = hf_success_text(loop.model_type, model,
                                                huggingface_service.model, result)
                     /\ rpc' = "respond"
                ELSE /\ UNCHANGED text
                     /\ rpc' = "hf_sleep"
    /\ UNCHANGED <<env, startup_vars, req, loop, response>>

RetryDelay == 1

\* variant: after the last candidate the last error result is returned
HFSleep_returns_last ==
    /\ pc = "ready" /\ rpc = "hf_sleep"
    /\ events' = Append(events, [op |-> "sleep", seconds |-> RetryDelay])
    /\ IF loop.idx < Len(loop.models_to_try)
       THEN /\ loop' = [loop EXCEPT !.idx = @ + 1]
            /\ rpc' = "hf_call"
            /\ UNCHANGED text
       ELSE /\ text' = events[Len(events)].result
            /\ rpc' = "respond"
            /\ UNCHANGED loop
    /\ UNCHANGED <<env, startup_vars, req, response>>

\* time.sleep(1) and the end of the iteration, huggingface_service.py:61-63
HFSleep ==
    /\ pc = "ready" /\ rpc = "hf_sleep"
    /\ events' = Append(events, [op |-> "sleep", seconds |-> RetryDelay])
    /\ IF loop.idx < Len(loop.models_to_try)
       THEN /\ loop' = [loop EXCEPT !.idx = @ + 1]
            /\ rpc' = "hf_call"
            /\ UNCHANGED text
       ELSE /\ text' = AllUnavailableText
            /\ rpc' = "respond"
            /\ UNCHANGED loop
    /\ UNCHANGED <<env, startup_vars, req, response>>

\* the model field of TextGenerationResponse, ai.py:75 and ai.py:83
response_model(e) ==
    getenv_default(e.GROQ_MODEL, getenv_default(e.HUGGINGFACE_MODEL, "unknown"))

\* variant: the failure envelope keeps the text in generated_text
generate_envelope_keeps_text(t, e, provider) ==
    IF startswith(t, "Error:")
    THEN [kind |-> "generate", generated_text |-> t, model |-> response_model(e),
          provider |-> provider, success |-> FALSE, error |-> t]
    ELSE [kind |-> "generate", generated_text |-> t, model |-> response_model(e),
          provider |-> provider, success |-> TRUE, error |-> None]

\* ai.py:71-86
generate_envelope(t, e, provider) ==
    IF startswith(t, "Error:")
    THEN [kind |-> "generate", generated_text |-> "", model |-> response_model(e),
          provider |-> provider, success |-> FALSE, error |-> t]
    ELSE [kind |-> "generate", generated_text |-> t, model |-> response_model(e),
          provider |-> provider, success |-> TRUE, error |-> None]

\* the return statements: ai.py:71-86, 128-134, 147-152, 165-170, 181-185
Respond ==
    /\ pc = "ready" /\ rpc = "respond"
    /\ response' =
         CASE req.endpoint = "generate" ->
                generate_envelope(text, env, AI_PROVIDER)
           [] req.endpoint = "translate" ->
                [kind |-> "translate", original_text |-> req.args.text,
                 translated_text |-> text,
                 source_language |-> req.args.source_language,
                 target_language |-> req.args.target_language,
                 model |-> env.GROQ_MODEL]
           [] req.endpoint = "summarize" ->
                [kind |-> "summarize", original_length |-> Len(req.args.text),
                 summary |-> text, summary_length |-> Len(text),
                 model |-> env.GROQ_MODEL]
           [] req.endpoint = "generate-code" ->
                [kind |-> "generate-code", instruction |-> req.args.instruction,
                 language |-> req.args.language, code |-> text,
                 model |-> env.GROQ_MODEL]
           [] req.endpoint = "chat" ->
                [kind |-> "chat", user_message |-> req.args.message,
                 ai_response |-> text, model |-> env.GROQ_MODEL]
    /\ rpc' = "idle"
    /\ UNCHANGED <<env, startup_vars, req, loop, events, text>>

Next ==
    \/ GroqModuleImport
    \/ GroqServiceCreate
    \/ RouterSelectGroq
    \/ RouterFallbackHF
    \/ RouterFallbackMock
    \/ StartGenerate
    \/ StartTranslate
    \/ StartSummarize
    \/ StartGenerateCode
    \/ StartChat
    \/ GetProvider
    \/ CallMock
    \/ CallGroq
    \/ HFBegin
    \/ HFCall
    \/ HFSleep
    \/ Respond

Spec == Init /\ [][Next]_vars

(***************************************************************************)
(* Properties                                                              *)
(***************************************************************************)
TextEndpoints == {"generate", "translate", "summarize", "generate-code", "chat"}

\* generate_text_ai has returned for the request being served
Returned ==
    /\ pc = "ready"
    /\ rpc \in {"respond", "idle"}
    /\ req.endpoint \in TextEndpoints
    /\ generate_text_ai # None

\* the raw Hugging Face API calls made for the request, in order
HFCalls == SelectSeq(events, LAMBDA e : e.op = "hf_api")

ProviderFunction ==
    [groq |-> "generate_text_groq", huggingface |-> "generate_text_hf",
     mock |-> "generate_text_mock"]

\* the model catalog as requests see it
Catalog == IF huggingface_service = NoneObj THEN NoneObj ELSE huggingface_service.models

C1_Selected ==
    pc = "ready" =>
        /\ AI_PROVIDER \in {"groq", "huggingface", "mock"}
        /\ generate_text_ai = ProviderFunction[AI_PROVIDER]
        /\ (AI_PROVIDER = "huggingface" => Catalog = ModelCatalog)
        /\ (response.kind \in {"generate", "provider"} => response.provider = AI_PROVIDER)

C1_Frozen ==
    pc = "ready" =>
        /\ AI_PROVIDER' = AI_PROVIDER
        /\ generate_text_ai' = generate_text_ai
        /\ Catalog' = Catalog

\* C1: once the import of the router has completed, the active provider is
\* one of groq, huggingface, mock (never none), generate_text_ai is that
\* provider's function, and no request changes the provider, the function
\* or the Hugging Face model catalog; responses report that provider.
C1_ProviderFixed == [](C1_Selected) /\ [][C1_Frozen]_vars

C1_Witness ==
    /\ Returned /\ rpc = "idle"
    /\ req.endpoint = "chat"
    /\ AI_PROVIDER = "huggingface"
    /\ Len(HFCalls) = 3

GroqSelectable ==
    groq_lib = "ok" /\ env.GROQ_API_KEY \notin {None, ""} /\ groq_ctor = "ok"

\* C2: startup selects Groq exactly when the client library imports, the
\* key is non-empty and the client is constructed; otherwise no exception
\* escapes, Hugging Face is selected whenever its module imports (with or
\* without HUGGINGFACE_API_KEY), and the mock only when neither was selected.
C2_SelectionPriority ==
    /\ uncaught = None /\ pc # "crashed"
    /\ pc = "ready" =>
          /\ (AI_PROVIDER = "groq") <=> GroqSelectable
          /\ (AI_PROVIDER = "huggingface") <=> (~GroqSelectable /\ hf_import = "ok")
          /\ (AI_PROVIDER = "mock") <=>
                 (~GroqSelectable /\ hf_import \in {"ImportError", "RuntimeError"})
          /\ (GroqSelectable => hf_import = "not_run")

C2_Witness ==
    /\ pc = "ready"
    /\ groq_lib = "ok" /\ groq_ctor = "failed"
    /\ env.HUGGINGFACE_API_KEY = None
    /\ AI_PROVIDER = "huggingface"

\* every candidate of the list was called and every result is an error
AllCandidatesFailed ==
    /\ generate_text_ai = "generate_text_hf"
    /\ Len(HFCalls) = Len(loop.models_to_try)
    /\ \A k \in 1..Len(HFCalls) : _is_error(HFCalls[k].result)

\* C3: when every Hugging Face candidate (the category's models, then the
\* default model) returned a result that _is_error classifies as an error,
\* generate_text returns exactly the "all models unavailable" text.
C3_Exhaustion ==
    (Returned /\ AllCandidatesFailed) =>
        /\ text # None
        /\ text = "Sorry, all models are currently unavailable. Please try again later."

C3_Witness ==
    /\ Returned /\ AllCandidatesFailed
    /\ Len(loop.models_to_try) = 3
    /\ HFCalls[1].result = "Model is Loading"
    /\ HFCalls[2].result = "Error 429"
    /\ HFCalls[3].result = "Error: Read timed out"

HFServed == pc = "ready" /\ generate_text_ai = "generate_text_hf" /\ loop # NoLoop

\* the candidates in the order the catalog and the configuration give them
ExpectedCandidates ==
    huggingface_service.models[loop.model_type] \o <<huggingface_service.model>>

\* calls follow the candidate order, each one after an error of the one
\* before, and the list is exhausted or ended by a non-error result
CallOrder ==
    /\ Len(HFCalls) <= Len(ExpectedCandidates)
    /\ \A k \in 1..Len(HFCalls) : HFCalls[k].model = ExpectedCandidates[k]
    /\ \A k \in 1..(Len(HFCalls) - 1) : _is_error(HFCalls[k].result)
    /\ rpc = "hf_call" => loop.idx = Len(HFCalls) + 1
    /\ Returned =>
          /\ Len(HFCalls) >= 1
          /\ \/ ~_is_error(HFCalls[Len(HFCalls)].result)
             \/ Len(HFCalls) = Len(ExpectedCandidates)

LastCall == HFCalls[Len(HFCalls)]

Succeeded == Returned /\ Len(HFCalls) >= 1 /\ ~_is_error(LastCall.result)

CategoryLabel ==
    [conversation |-> "Conversation", text_generation |-> "Text_generation",
     summarization |-> "Summarization", text_to_text |-> "Text_to_text"]

\* C4 as stated: candidates are called in list order, the next one only
\* after an error, none after a non-error result, and the text of the
\* first non-error candidate is what generate_text returns.
C4_Original ==
    HFServed =>
        /\ CallOrder
        /\ Succeeded => text = LastCall.result

\* C4 amended: as stated, except that the returned text is the candidate's
\* text only when the candidate is the default model; for any other
\* candidate it is "[<Category> model: <model>] " followed by the text.
C4_OrderedCandidates ==
    HFServed =>
        /\ CallOrder
        /\ Succeeded =>
              text = IF LastCall.model = huggingface_service.model
                     THEN LastCall.result
                     ELSE "[" \o CategoryLabel[loop.model_type] \o " model: "
                              \o LastCall.model \o "] " \o LastCall.result

\* the default model is in the category list and is called a second time
C4_Witness ==
    /\ HFServed /\ Succeeded
    /\ Len(HFCalls) = 3
    /\ HFCalls[1].model = HFCalls[3].model
    /\ text = "Paris."

GroqServed == Returned /\ generate_text_ai = "generate_text_groq"

GroqFailureText(msg) ==
    LET m == lower(msg)
        rate == contains(m, "rate limit")
        auth == contains(m, "authentication")
        conn == contains(m, "connection")
    IN  /\ rate => text = "Error: Rate limit exceeded. Please try again in a moment."
        /\ (~rate /\ auth) =>
               text = "Error: Invalid API key. Please check your GROQ_API_KEY."
        /\ (~rate /\ ~auth /\ conn) =>
               text = "Error: Connection failed. Please check your internet connection."
        /\ (~rate /\ ~auth /\ ~conn) => text = "Error: " \o msg
        /\ SubSeq(text, 1, 6) = "Error:"

\* C5: Groq generate_text returns a text for every request, after exactly
\* one API call; when the call raises, the text is chosen by the first of
\* 'rate limit', 'authentication', 'connection' found in the lower-cased
\* message, else "Error: " and the message; it always starts with "Error:".
C5_GroqErrors ==
    GroqServed =>
        /\ text # None
        /\ Len(events) = 1
        /\ events[1].op = "groq_api"
        /\ events[1].outcome.kind = "raise" => GroqFailureText(events[1].outcome.msg)

C5_Witness ==
    /\ GroqServed
    /\ events[1].outcome.kind = "raise"
    /\ contains(lower(events[1].outcome.msg), "authentication")
    /\ text = "Error: Rate limit exceeded. Please try again in a moment."

ErrorPrefixed(t) == Len(t) >= 6 /\ SubSeq(t, 1, 6) = "Error:"

\* C6: the /ai/generate envelope has success=false exactly when the
\* provider's text starts with "Error:", then with generated_text "" and
\* error the text; otherwise success=true, generated_text the text and no
\* error; provider is the provider selected at startup.
C6_Envelope ==
    response.kind = "generate" =>
        /\ response.success = ~ErrorPrefixed(text)
        /\ ErrorPrefixed(text) => (response.generated_text = "" /\ response.error = text)
        /\ ~ErrorPrefixed(text) =>
               (response.generated_text = text /\ response.error = None)
        /\ response.provider = AI_PROVIDER

\* a model output that itself starts with "Error:" is reported as a failure
C6_Witness ==
    /\ response.kind = "generate"
    /\ ~response.success
    /\ AI_PROVIDER = "groq"
    /\ events[1].outcome.kind = "ok"

MockEcho(p) == IF Len(p) <= 50 THEN p ELSE SubSeq(p, 1, 50)

\* C7: with the mock active, /ai/generate answers success=true, provider
\* mock, and a text that starts with the mock banner, the first 50
\* characters of the prompt and "...'"; the text depends on the prompt only.
C7_Mock ==
    (response.kind = "generate" /\ AI_PROVIDER = "mock") =>
        /\ response.success
        /\ response.provider = "mock"
        /\ response.error = None
        /\ startswith(response.generated_text,
                "[Mock Response] I received your prompt: '" \o MockEcho(req.prompt) \o "...'")
        /\ response.generated_text =
                "[Mock Response] I received your prompt: '" \o MockEcho(req.prompt)
                    \o "...'. Please configure an AI provider."

C7_Witness ==
    /\ response.kind = "generate" /\ AI_PROVIDER = "mock"
    /\ Len(req.prompt) > 50
    /\ req.max_tokens = 2 /\ req.temperature = 15

CategoryOrder ==
    <<[category |-> "conversation",
       words |-> {"hello", "hi", "how are you", "chat", "talk"}],
      [category |-> "summarization",
       words |-> {"summarize", "summary", "brief", "overview"}],
      [category |-> "text_to_text",
       words |-> {"translate", "convert", "transform"}]>>

Matches(k, pl) == \E w \in CategoryOrder[k].words : contains(pl, w)

FirstMatch(p) ==
    LET pl == lower(p)
    IN  IF \E k \in 1..Len(CategoryOrder) : Matches(k, pl)
        THEN CategoryOrder[CHOOSE k \in 1..Len(CategoryOrder) :
                 Matches(k, pl) /\ \A j \in 1..(k - 1) : ~Matches(j, pl)].category
        ELSE "text_generation"

\* C8: the classifier returns the first of conversation, summarization,
\* text_to_text with a keyword that is a case-insensitive substring of the
\* prompt, text_generation when there is none; conversation wins over
\* summarization; the category is always a key of the model catalog.
C8_Classifier ==
    HFServed =>
        LET pl == lower(req.prompt)
        IN  /\ loop.model_type = FirstMatch(req.prompt)
            /\ loop.model_type \in DOMAIN huggingface_service.models
            /\ (contains(pl, "hello") \/ contains(pl, "chat"))
                   => loop.model_type = "conversation"

C8_Witness ==
    /\ HFServed
    /\ contains(lower(req.prompt), "summarize")
    /\ contains(lower(req.prompt), "hello")
    /\ ~contains(req.prompt, "hello")
    /\ loop.model_type = "conversation"

ProviderFailed ==
    \/ /\ generate_text_ai = "generate_text_groq"
       /\ Len(events) = 1 /\ events[1].outcome.kind = "raise"
    \/ AllCandidatesFailed

\* C9: on /ai/generate, when the Groq call raised or every Hugging Face
\* candidate returned an error result, the envelope has success=false and
\* a non-empty error; success=true needs a non-error text from a provider call.
C9_FailureFlagged ==
    (response.kind = "generate" /\ ProviderFailed) =>
        /\ ~response.success
        /\ response.error # None /\ response.error # ""

\* C10: every sleep follows a candidate call that returned an error and is
\* followed by the call of the next candidate: once generate_text has
\* returned, no sleep is the last event.
C10_DelayBetweenAttempts ==
    HFServed =>
        \A j \in 1..Len(events) :
            events[j].op = "sleep" =>
                /\ j > 1
                /\ events[j - 1].op = "hf_api"
                /\ _is_error(events[j - 1].result)
                /\ j < Len(events) => events[j + 1].op = "hf_api"
                /\ Returned => j < Len(events)

====
